---------------------------- MODULE Spec2Model ----------------------------
(***************************************************************************)
(* Model of the bettervoice webhook receiver (src/main.py).                *)
(*                                                                         *)
(* The program is one asynchronous handler, receive_webhook, served by a   *)
(* single-threaded event loop.  A handler runs without interruption until  *)
(* it awaits the network (the two body reads, lines 57 and 61); only there *)
(* can another request's handler run.                                      *)
(*                                                                         *)
(* Python values are records with a field py naming the Python type.       *)
(* Python str values are sequences of Unicode code points, bytes values    *)
(* are sequences of integers 0..255.                                       *)
(***************************************************************************)
EXTENDS Integers, Sequences, FiniteSets, TLC

(***************************************************************************)
(* Bounds of the model.                                                    *)
(***************************************************************************)
MaxBodyLen == 3

MaxRequests == 2

(***************************************************************************)
(* The bytes request bodies are built from:                                *)
(*   32 ' '   34 '"'   49 '1'   78 'N'   97 'a'   91 '['   93 ']'          *)
(*   123 '{'  125 '}'  195,169 (together the UTF-8 encoding of U+00E9)     *)
(*   255 (never valid in UTF-8)                                            *)
(* No byte 0, 239, 254 is included, so json.loads' encoding detection      *)
(* always selects UTF-8; no '\', ',', ':' or control byte is included.     *)
(***************************************************************************)
ByteAlphabet == {32, 34, 49, 78, 97, 91, 93, 123, 125, 195, 169, 255}

RECURSIVE SeqsUpTo(_, _)
SeqsUpTo(S, n) ==
    IF n = 0 THEN {<<>>}
    ELSE LET shorter == SeqsUpTo(S, n - 1)
         IN  shorter \cup {Append(q, x) : q \in {t \in shorter : Len(t) = n - 1}, x \in S}

AllBodies == SeqsUpTo(ByteAlphabet, MaxBodyLen)

(***************************************************************************)
(* Python values.                                                          *)
(***************************************************************************)
Unbound == [py |-> "unbound"]

PyNone == [py |-> "NoneType"]

PyInt(n) == [py |-> "int", n |-> n]

PyStr(s) == [py |-> "str", s |-> s]

PyBytes(b) == [py |-> "bytes", b |-> b]

PyList(items) == [py |-> "list", items |-> items]

PyDict(m) == [py |-> "dict", map |-> m]

PyNaN == [py |-> "float", repr |-> "nan"]

(***************************************************************************)
(* Results of operations that may raise.                                   *)
(***************************************************************************)
Raise(e) == [ok |-> FALSE, exc |-> e]

Parsed(v, end) == [ok |-> TRUE, val |-> v, end |-> end]

Returned(v) == [ok |-> TRUE, val |-> v]

At(s, i) == IF i >= 1 /\ i <= Len(s) THEN s[i] ELSE -1

(***************************************************************************)
(* bytes.decode("utf-8"), strict: one- and two-byte forms; every other     *)
(* byte (a continuation byte out of place, 0xC0, 0xC1, 0xF5..0xFF, and the *)
(* three- and four-byte leads, which the alphabet does not contain) raises *)
(* UnicodeDecodeError.                                                     *)
(***************************************************************************)
RECURSIVE utf8_from(_, _, _)
utf8_from(b, i, acc) ==
    IF i > Len(b) THEN Returned(acc)
    ELSE IF b[i] < 128 THEN utf8_from(b, i + 1, Append(acc, b[i]))
    ELSE IF /\ b[i] >= 194 /\ b[i] <= 223
            /\ At(b, i + 1) >= 128 /\ At(b, i + 1) <= 191
         THEN utf8_from(b, i + 2, Append(acc, (b[i] - 192) * 64 + (b[i + 1] - 128)))
    ELSE Raise("UnicodeDecodeError")

utf8_decode(b) == utf8_from(b, 1, <<>>)

(***************************************************************************)
(* json.loads on str, as json.decoder / json.scanner do it.                *)
(***************************************************************************)
JsonWs == {32, 9, 10, 13}

RECURSIVE SkipWs(_, _)
SkipWs(s, i) == IF At(s, i) \in JsonWs THEN SkipWs(s, i + 1) ELSE i

RECURSIVE FindQuote(_, _)
FindQuote(s, i) ==
    IF i > Len(s) THEN 0
    ELSE IF s[i] = 34 THEN i
    ELSE FindQuote(s, i + 1)

\* scanstring(s, i, strict=True), i the index after the opening quote.
\* Escapes are not modelled: the alphabet holds no backslash.
scanstring(s, i) ==
    LET j == FindQuote(s, i)
    IN  IF j = 0 THEN Raise("JSONDecodeError")
        ELSE IF \E k \in i..(j - 1) : s[k] < 32 \/ s[k] = 92 THEN Raise("JSONDecodeError")
        ELSE Parsed(PyStr(SubSeq(s, i, j - 1)), j + 1)

RECURSIVE DigitsEnd(_, _)
DigitsEnd(s, i) == IF At(s, i) >= 48 /\ At(s, i) <= 57 THEN DigitsEnd(s, i + 1) ELSE i

RECURSIVE IntOf(_, _, _, _)
IntOf(s, i, j, acc) == IF i >= j THEN acc ELSE IntOf(s, i + 1, j, acc * 10 + (s[i] - 48))

\* NUMBER_RE: (-?(?:0|[1-9][0-9]*)); sign, fraction and exponent need
\* characters outside the alphabet.
match_number(s, i) ==
    IF At(s, i) = 48 THEN Parsed(PyInt(0), i + 1)
    ELSE IF At(s, i) >= 49 /\ At(s, i) <= 57
         THEN LET j == DigitsEnd(s, i) IN Parsed(PyInt(IntOf(s, i, j, 0)), j)
    ELSE Raise("JSONDecodeError")

RECURSIVE scan_once(_, _, _)
RECURSIVE ArrayItems(_, _, _, _)

\* JSONArray(s_and_end, scan_once), i the index after '['.
JSONArray(s, i, constants) ==
    LET j == SkipWs(s, i)
    IN  IF At(s, j) = 93 THEN Parsed(PyList(<<>>), j + 1)
        ELSE ArrayItems(s, j, <<>>, constants)

ArrayItems(s, i, acc, constants) ==
    LET r == scan_once(s, i, constants)
    IN  IF ~r.ok THEN Raise("JSONDecodeError")
        ELSE LET k == SkipWs(s, r.end)
             IN  IF At(s, k) = 93 THEN Parsed(PyList(Append(acc, r.val)), k + 1)
                 ELSE IF At(s, k) = 44
                      THEN ArrayItems(s, SkipWs(s, k + 1), Append(acc, r.val), constants)
                 ELSE Raise("JSONDecodeError")

\* JSONObject(s_and_end, ...), i the index after '{'.  A member needs a
\* ':' after its key, which no modelled body contains, so only the empty
\* object parses.
JSONObject(s, i) ==
    LET j == SkipWs(s, i)
    IN  IF At(s, j) = 125 THEN Parsed(PyDict(<<>>), j + 1) ELSE Raise("JSONDecodeError")

\* constants = TRUE is Python's scanner, which accepts the literal NaN
\* (parse_constant); constants = FALSE is the RFC 8259 grammar.
scan_once(s, i, constants) ==
    IF At(s, i) = 34 THEN scanstring(s, i + 1)
    ELSE IF At(s, i) = 123 THEN JSONObject(s, i + 1)
    ELSE IF At(s, i) = 91 THEN JSONArray(s, i + 1, constants)
    ELSE IF At(s, i) >= 48 /\ At(s, i) <= 57 THEN match_number(s, i)
    ELSE IF constants /\ At(s, i) = 78 /\ At(s, i + 1) = 97 /\ At(s, i + 2) = 78
         THEN Parsed(PyNaN, i + 3)
    ELSE Raise("JSONDecodeError")

\* JSONDecoder.decode: leading whitespace, one value, trailing whitespace.
decode_text(s, constants) ==
    LET r == scan_once(s, SkipWs(s, 1), constants)
    IN  IF ~r.ok THEN Raise("JSONDecodeError")
        ELSE IF SkipWs(s, r.end) # Len(s) + 1 THEN Raise("JSONDecodeError")
        ELSE Returned(r.val)

\* json.loads(bytes): decode as UTF-8, then parse.
json_loads(b) ==
    LET d == utf8_decode(b)
    IN  IF ~d.ok THEN d ELSE decode_text(d.val, TRUE)

\* A body that is a JSON text in the sense of RFC 8259.
IsValidJSON(b) ==
    LET d == utf8_decode(b)
    IN  d.ok /\ decode_text(d.val, FALSE).ok

IsValidUTF8(b) == utf8_decode(b).ok

(***************************************************************************)
(* json.dumps(obj, ensure_ascii=False, default=str), str() and repr().     *)
(***************************************************************************)
RECURSIVE DecimalDigits(_)
DecimalDigits(n) ==
    IF n < 10 THEN <<48 + n>> ELSE Append(DecimalDigits(n \div 10), 48 + (n % 10))

HexDigit(d) == IF d < 10 THEN 48 + d ELSE 87 + d

\* repr(bytes): b'...' (the alphabet holds no single quote).
RECURSIVE bytes_repr_from(_, _)
bytes_repr_from(b, i) ==
    IF i > Len(b) THEN <<>>
    ELSE (IF b[i] = 92 \/ b[i] = 39 THEN <<92, b[i]>>
          ELSE IF b[i] >= 32 /\ b[i] < 127 THEN <<b[i]>>
          ELSE <<92, 120, HexDigit(b[i] \div 16), HexDigit(b[i] % 16)>>)
         \o bytes_repr_from(b, i + 1)

bytes_repr(b) == <<98, 39>> \o bytes_repr_from(b, 1) \o <<39>>

\* py_encode_basestring: '"' and '\' are escaped, nothing else occurs.
RECURSIVE escape_from(_, _)
escape_from(s, i) ==
    IF i > Len(s) THEN <<>>
    ELSE (IF s[i] = 34 \/ s[i] = 92 THEN <<92, s[i]>> ELSE <<s[i]>>) \o escape_from(s, i + 1)

encode_basestring(s) == <<34>> \o escape_from(s, 1) \o <<34>>

\* repr(str): single quotes (no modelled str holds a single quote).
RECURSIVE str_repr_from(_, _)
str_repr_from(s, i) ==
    IF i > Len(s) THEN <<>>
    ELSE (IF s[i] = 92 THEN <<92, 92>> ELSE <<s[i]>>) \o str_repr_from(s, i + 1)

RECURSIVE py_repr(_)
RECURSIVE repr_items(_, _)
repr_items(items, i) ==
    IF i > Len(items) THEN <<>>
    ELSE (IF i > 1 THEN <<44, 32>> ELSE <<>>) \o py_repr(items[i]) \o repr_items(items, i + 1)

py_repr(v) ==
    IF v.py = "str" THEN <<39>> \o str_repr_from(v.s, 1) \o <<39>>
    ELSE IF v.py = "bytes" THEN bytes_repr(v.b)
    ELSE IF v.py = "int" THEN DecimalDigits(v.n)
    ELSE IF v.py = "float" THEN <<110, 97, 110>>
    ELSE IF v.py = "list" THEN <<91>> \o repr_items(v.items, 1) \o <<93>>
    ELSE IF v.py = "dict" THEN <<123, 125>>
    ELSE <<78, 111, 110, 101>>

\* str(obj): a str is itself, every other type is its repr.  Never raises.
py_str(v) == IF v.py = "str" THEN v.s ELSE py_repr(v)

RECURSIVE json_encode(_, _)
RECURSIVE encode_items(_, _, _)
encode_items(items, i, use_default) ==
    IF i > Len(items) THEN Returned(<<>>)
    ELSE LET head == json_encode(items[i], use_default)
             rest == encode_items(items, i + 1, use_default)
         IN  IF ~head.ok \/ ~rest.ok THEN Raise("TypeError")
             ELSE Returned((IF i > 1 THEN <<44, 32>> ELSE <<>>) \o head.val \o rest.val)

\* use_default = TRUE is default=str: a value of a type the encoder does
\* not know is replaced by str(value); without it the encoder raises
\* TypeError.
json_encode(v, use_default) ==
    IF v.py = "str" THEN Returned(encode_basestring(v.s))
    ELSE IF v.py = "int" THEN Returned(DecimalDigits(v.n))
    ELSE IF v.py = "float" THEN Returned(<<78, 97, 78>>)
    ELSE IF v.py = "NoneType" THEN Returned(<<110, 117, 108, 108>>)
    ELSE IF v.py = "dict" THEN Returned(<<123, 125>>)
    ELSE IF v.py = "list"
         THEN LET inner == encode_items(v.items, 1, use_default)
              IN  IF ~inner.ok THEN Raise("TypeError") ELSE Returned(<<91>> \o inner.val \o <<93>>)
    ELSE IF use_default THEN Returned(encode_basestring(py_str(v)))
    ELSE Raise("TypeError")

json_dumps(v) == json_encode(v, TRUE)

(***************************************************************************)
(* Inbound requests.                                                       *)
(*   client      request.client: NoClient or an address                    *)
(*   headers     the raw header list, in order, duplicates included        *)
(*   body        the bytes the client sends                                *)
(*   disconnect  the client goes away before the body has arrived, so      *)
(*               every read of the body raises ClientDisconnect            *)
(***************************************************************************)
Requests == 1..MaxRequests

NoClient == [host |-> "", port |-> 0]

\* Who sends: a connection (with or without a peer address) and the headers
\* it sends.  A repeated header name is included.
Peers ==
    { [client |-> NoClient,
       headers |-> << <<"content-type", "application/json">> >>],
      [client |-> [host |-> "10.0.0.1", port |-> 40001],
       headers |-> << <<"content-type", "application/json">> >>],
      [client |-> [host |-> "10.0.0.2", port |-> 40002],
       headers |-> << <<"x-signature", "a">>, <<"x-signature", "b">> >>] }

\* One body for each outcome of the ladder: json, text, bytes.
SampleBodies == { <<49>>, <<97>>, <<255>> }

Delivered(peers, bodies) ==
    {[client |-> p.client, headers |-> p.headers, body |-> b, disconnect |-> FALSE] :
         p \in peers, b \in bodies}

Dropped(peers) ==
    {[client |-> p.client, headers |-> p.headers, body |-> <<>>, disconnect |-> TRUE] :
         p \in peers}

ServerInputs == Delivered(Peers, SampleBodies) \cup Dropped(Peers)

LadderInputs ==
    LET peer == {p \in Peers : p.client = NoClient}
    IN  Delivered(peer, AllBodies) \cup Dropped(peer)

(***************************************************************************)
(* The logger (lines 15-24).  LOG_LEVEL is read from the environment once, *)
(* at import.  A logger set to NOTSET takes the root logger's level,       *)
(* WARNING.                                                                *)
(***************************************************************************)
LevelNo == [CRITICAL |-> 50, ERROR |-> 40, WARNING |-> 30, INFO |-> 20, DEBUG |-> 10, NOTSET |-> 0]

LevelNames == {"DEBUG", "INFO", "WARNING", "ERROR", "CRITICAL", "NOTSET"}

getEffectiveLevel(level) ==
    IF LevelNo[level] # 0 THEN LevelNo[level] ELSE LevelNo["WARNING"]

isEnabledFor(level, configured) == LevelNo[level] >= getEffectiveLevel(configured)

(***************************************************************************)
(* Responses.                                                              *)
(***************************************************************************)
NoResponse == [status |-> 0, content |-> ""]

JSONResponse == [status |-> 200, content |-> "{\"received\":true,\"status\":\"ok\"}"]

ServerError == [status |-> 500, content |-> "Internal Server Error"]

NoExc == [type |-> "", line |-> 0]

Tags == {"json", "text", "bytes"}

VARIABLES
    LOG_LEVEL,        \* line 15
    serving,          \* the server process is up (uvicorn.run, line 95)
    running,          \* the request whose handler the event loop runs; 0: none
    request,          \* the request object handed to each handler
    pc,               \* each handler's position: "l<line>", "idle", "done", "raised"
    client_ip, headers, body, body_type, raw, serialized_body,   \* handler locals
    response,         \* what the client is sent
    exc,              \* the exception that left the handler
    log,              \* the logging sink: the records written, in order
    log_calls,        \* times the handler has executed logger.info
    after_failure     \* history: the request arrived after some handler had raised

vars == <<LOG_LEVEL, serving, running, request, pc, client_ip, headers, body, body_type,
          raw, serialized_body, response, exc, log, log_calls, after_failure>>

locals == <<client_ip, headers, body, body_type, raw, serialized_body>>

InitWith(levels) ==
    /\ LOG_LEVEL \in levels
    /\ serving = TRUE
    /\ running = 0
    /\ request = [r \in Requests |-> Unbound]
    /\ pc = [r \in Requests |-> "idle"]
    /\ client_ip = [r \in Requests |-> Unbound]
    /\ headers = [r \in Requests |-> Unbound]
    /\ body = [r \in Requests |-> Unbound]
    /\ body_type = [r \in Requests |-> ""]
    /\ raw = [r \in Requests |-> Unbound]
    /\ serialized_body = [r \in Requests |-> Unbound]
    /\ response = [r \in Requests |-> NoResponse]
    /\ exc = [r \in Requests |-> NoExc]
    /\ log = <<>>
    /\ log_calls = [r \in Requests |-> 0]
    /\ after_failure = [r \in Requests |-> FALSE]

Init == InitWith(LevelNames)

\* The default configuration: LOG_LEVEL unset, so "INFO" (line 15).
InitLadder == InitWith({"INFO"})

(***************************************************************************)
(* The blocks of receive_webhook, as functions of what they read.          *)
(***************************************************************************)

\* The acknowledgment returned before the log call.
after_respond_first(label) ==
    CASE label = "l48" -> "l57"
      [] label = "l62" -> "l70"
      [] label = "l70" -> "l88"
      [] label = "l88" -> "l75"
      [] label = "l75" -> "done"

\* The order of the handler's steps (lines 48-88).
after(label) ==
    CASE label = "l48" -> "l57"
      [] label = "l62" -> "l70"
      [] label = "l70" -> "l75"
      [] label = "l75" -> "l88"
      [] label = "l88" -> "done"

\* request.client.host read without the test of line 49.
extract_client_ip_unchecked(req) ==
    IF req.client # NoClient THEN Returned(PyStr(req.client.host)) ELSE Raise("AttributeError")

\* Lines 48-50.
extract_client_ip(req) ==
    IF req.client # NoClient THEN Returned(PyStr(req.client.host)) ELSE Returned(PyNone)

\* Line 52: a dict comprehension over the header pairs; a later pair with
\* the same name replaces an earlier one.
extract_headers(req) ==
    LET hs == req.headers
        names == {hs[i][1] : i \in 1..Len(hs)}
        last(k) == CHOOSE i \in 1..Len(hs) :
                       /\ hs[i][1] = k
                       /\ \A j \in 1..Len(hs) : hs[j][1] = k => j <= i
    IN  PyDict([k \in names |-> hs[last(k)][2]])

\* request.body(): the bytes of the body, or ClientDisconnect.
request_body(req) ==
    IF req.disconnect THEN Raise("ClientDisconnect") ELSE Returned(PyBytes(req.body))

\* request.json(): json.loads(await self.body()).
request_json(req) ==
    LET b == request_body(req)
    IN  IF ~b.ok THEN b ELSE json_loads(b.val.b)

\* "except json.JSONDecodeError" in place of "except Exception".
json_stage_narrow(req) ==
    LET j == request_json(req)
    IN  IF j.ok
        THEN [to |-> "l70", body |-> j.val, body_type |-> "json", exc |-> ""]
        ELSE IF j.exc = "JSONDecodeError"
        THEN [to |-> "l61", body |-> PyNone, body_type |-> "unknown", exc |-> ""]
        ELSE [to |-> "raised", body |-> PyNone, body_type |-> "unknown", exc |-> j.exc]

\* Lines 56-59.  to = "l70": the JSON stage succeeded; to = "l61": the
\* exception was caught and the handler goes on to read the raw body.
json_stage(req) ==
    LET j == request_json(req)
    IN  IF j.ok
        THEN [to |-> "l70", body |-> j.val, body_type |-> "json", exc |-> ""]
        ELSE [to |-> "l61", body |-> PyNone, body_type |-> "unknown", exc |-> ""]

\* The UTF-8 stage skipped: the raw bytes are kept whatever they are.
utf8_stage_always_bytes(rawbytes) ==
    [to |-> after("l62"), body |-> rawbytes, body_type |-> "bytes", exc |-> ""]

\* The decode of line 63 outside any try.
utf8_stage_no_try(rawbytes) ==
    LET d == utf8_decode(rawbytes.b)
    IN  IF d.ok
        THEN [to |-> after("l62"), body |-> PyStr(d.val), body_type |-> "text", exc |-> ""]
        ELSE [to |-> "raised", body |-> PyNone, body_type |-> "unknown", exc |-> d.exc]

\* Line 67 missing: the bytes branch leaves the tag as it was.
utf8_stage_untagged(rawbytes) ==
    LET d == utf8_decode(rawbytes.b)
    IN  IF d.ok
        THEN [to |-> after("l62"), body |-> PyStr(d.val), body_type |-> "text", exc |-> ""]
        ELSE [to |-> after("l62"), body |-> rawbytes, body_type |-> "unknown", exc |-> ""]

\* Lines 62-67.
utf8_stage(rawbytes) ==
    LET d == utf8_decode(rawbytes.b)
    IN  IF d.ok
        THEN [to |-> after("l62"), body |-> PyStr(d.val), body_type |-> "text", exc |-> ""]
        ELSE [to |-> after("l62"), body |-> rawbytes, body_type |-> "bytes", exc |-> ""]

\* json.dumps(body) alone: no default=str, no try.
safe_serialize_plain(b) ==
    LET s == json_encode(b, FALSE)
    IN  IF s.ok THEN Returned(PyStr(s.val)) ELSE s

\* Lines 70-73.
safe_serialize(b) ==
    LET s == json_dumps(b)
    IN  IF s.ok THEN Returned(PyStr(s.val)) ELSE Returned(PyStr(py_str(b)))

\* The handler's locals kept in one place shared by all requests.
LogRecord_shared(r) ==
    [req |-> r,
     levelname |-> "INFO",
     msg |-> "Received webhook event",
     source |-> "bettervoice",
     client_ip |-> client_ip[1],
     headers |-> headers[1],
     body_type |-> body_type[1],
     body |-> serialized_body[1]]

\* Lines 75-84: the record logger.info builds from the handler's locals.
\* req is not a field of the record: it notes whose handler made the call.
LogRecord(r) ==
    [req |-> r,
     levelname |-> "INFO",
     msg |-> "Received webhook event",
     source |-> "bettervoice",
     client_ip |-> client_ip[r],
     headers |-> headers[r],
     body_type |-> body_type[r],
     body |-> serialized_body[r]]

\* A second StreamHandler attached (the test of line 18 missing).
logger_info_two_handlers(sink, configured, rec) ==
    IF isEnabledFor("INFO", configured) THEN Append(Append(sink, rec), rec) ELSE sink

\* Logger.info (lines 16-24): one handler, one line per enabled record.
logger_info(sink, configured, rec) ==
    IF isEnabledFor("INFO", configured) THEN Append(sink, rec) ELSE sink

\* Line 88.
acknowledge(tag) == JSONResponse

\* An exception that leaves the handler ends the process.
server_after_exception_exit(up) == FALSE

\* An exception that leaves the handler: the framework answers 500 and the
\* server goes on serving (lines 39, 95).
server_after_exception(up) == up

(***************************************************************************)
(* Actions.                                                                *)
(***************************************************************************)
Runnable(r) == serving /\ (running = r \/ (running = 0 /\ pc[r] \in {"l57", "l61"}))

Propagate(r, type, line) ==
    /\ pc' = [pc EXCEPT ![r] = "raised"]
    /\ exc' = [exc EXCEPT ![r] = [type |-> type, line |-> line]]
    /\ response' = [response EXCEPT ![r] = ServerError]
    /\ serving' = server_after_exception(serving)
    /\ running' = 0

\* The server accepts a request and starts its handler.
Accept(r, inputs) ==
    /\ serving /\ running = 0 /\ pc[r] = "idle"
    /\ \E req \in inputs : request' = [request EXCEPT ![r] = req]
    /\ pc' = [pc EXCEPT ![r] = "l48"]
    /\ running' = r
    /\ after_failure' = [after_failure EXCEPT ![r] = \E q \in Requests : pc[q] = "raised"]
    /\ UNCHANGED <<LOG_LEVEL, serving, locals, response, exc, log, log_calls>>

\* Lines 48-57: the locals are set, then the handler awaits request.json().
Extract(r) ==
    /\ Runnable(r) /\ pc[r] = "l48"
    /\ LET ip == extract_client_ip(request[r])
       IN  IF ip.ok
           THEN /\ client_ip' = [client_ip EXCEPT ![r] = ip.val]
                /\ headers' = [headers EXCEPT ![r] = extract_headers(request[r])]
                /\ body' = [body EXCEPT ![r] = PyNone]
                /\ body_type' = [body_type EXCEPT ![r] = "unknown"]
                /\ pc' = [pc EXCEPT ![r] = after("l48")]
                /\ running' = 0
                /\ UNCHANGED <<serving, response, exc>>
           ELSE /\ Propagate(r, ip.exc, 50)
                /\ UNCHANGED <<client_ip, headers, body, body_type>>
    /\ UNCHANGED <<LOG_LEVEL, request, raw, serialized_body, log, log_calls, after_failure>>

\* Lines 57-59: request.json() returns or raises.  When the body has been
\* read, the handler goes on without suspending; when the read failed, the
\* handler catches the exception and suspends in the second read.
JsonStage(r) ==
    /\ Runnable(r) /\ pc[r] = "l57"
    /\ LET out == json_stage(request[r])
       IN  IF out.to = "raised"
           THEN /\ Propagate(r, out.exc, 57)
                /\ UNCHANGED <<body, body_type>>
           ELSE /\ body' = [body EXCEPT ![r] = out.body]
                /\ body_type' = [body_type EXCEPT ![r] = out.body_type]
                /\ pc' = [pc EXCEPT ![r] = out.to]
                /\ running' = IF request_body(request[r]).ok THEN r ELSE 0
                /\ UNCHANGED <<serving, response, exc>>
    /\ UNCHANGED <<LOG_LEVEL, request, client_ip, headers, raw, serialized_body,
                   log, log_calls, after_failure>>

\* Line 61, inside the except clause and outside the inner try.
RawBody(r) ==
    /\ Runnable(r) /\ pc[r] = "l61"
    /\ LET b == request_body(request[r])
       IN  IF b.ok
           THEN /\ raw' = [raw EXCEPT ![r] = b.val]
                /\ pc' = [pc EXCEPT ![r] = "l62"]
                /\ running' = r
                /\ UNCHANGED <<serving, response, exc>>
           ELSE /\ Propagate(r, b.exc, 61)
                /\ UNCHANGED raw
    /\ UNCHANGED <<LOG_LEVEL, request, client_ip, headers, body, body_type,
                   serialized_body, log, log_calls, after_failure>>

\* Lines 62-67.
Utf8Stage(r) ==
    /\ Runnable(r) /\ pc[r] = "l62"
    /\ LET out == utf8_stage(raw[r])
       IN  IF out.to = "raised"
           THEN /\ Propagate(r, out.exc, 63)
                /\ UNCHANGED <<body, body_type>>
           ELSE /\ body' = [body EXCEPT ![r] = out.body]
                /\ body_type' = [body_type EXCEPT ![r] = out.body_type]
                /\ pc' = [pc EXCEPT ![r] = out.to]
                /\ UNCHANGED <<serving, running, response, exc>>
    /\ UNCHANGED <<LOG_LEVEL, request, client_ip, headers, raw, serialized_body,
                   log, log_calls, after_failure>>

\* Lines 70-73.
Serialize(r) ==
    /\ Runnable(r) /\ pc[r] = "l70"
    /\ LET s == safe_serialize(body[r])
       IN  IF s.ok
           THEN /\ serialized_body' = [serialized_body EXCEPT ![r] = s.val]
                /\ pc' = [pc EXCEPT ![r] = after("l70")]
                /\ UNCHANGED <<serving, running, response, exc>>
           ELSE /\ Propagate(r, s.exc, 71)
                /\ UNCHANGED serialized_body
    /\ UNCHANGED <<LOG_LEVEL, request, client_ip, headers, body, body_type, raw,
                   log, log_calls, after_failure>>

\* Lines 75-84.
LogInfo(r) ==
    /\ Runnable(r) /\ pc[r] = "l75"
    /\ log' = logger_info(log, LOG_LEVEL, LogRecord(r))
    /\ log_calls' = [log_calls EXCEPT ![r] = @ + 1]
    /\ pc' = [pc EXCEPT ![r] = after("l75")]
    /\ UNCHANGED <<LOG_LEVEL, serving, running, request, locals, response, exc, after_failure>>

\* Line 88.
Respond(r) ==
    /\ Runnable(r) /\ pc[r] = "l88"
    /\ response' = [response EXCEPT ![r] = acknowledge(body_type[r])]
    /\ pc' = [pc EXCEPT ![r] = after("l88")]
    /\ running' = IF after("l88") = "done" THEN 0 ELSE r
    /\ UNCHANGED <<LOG_LEVEL, serving, request, locals, exc, log, log_calls, after_failure>>

\* The steps of request r's handler.
Step(r) ==
    \/ Accept(r, ServerInputs)
    \/ Extract(r)
    \/ JsonStage(r)
    \/ RawBody(r)
    \/ Utf8Stage(r)
    \/ Serialize(r)
    \/ LogInfo(r)
    \/ Respond(r)

Next == \E r \in Requests : Step(r)

Spec == Init /\ [][Next]_vars

\* One request, every body up to MaxBodyLen bytes.
NextLadder ==
    \/ Accept(1, LadderInputs)
    \/ Extract(1)
    \/ JsonStage(1)
    \/ RawBody(1)
    \/ Utf8Stage(1)
    \/ Serialize(1)
    \/ LogInfo(1)
    \/ Respond(1)

SpecLadder == InitLadder /\ [][NextLadder]_vars


(***************************************************************************)
(* Vocabulary of the properties.                                           *)
(***************************************************************************)
Accepted(r) == pc[r] # "idle"

Terminated(r) == pc[r] \in {"done", "raised"}

BodyDelivered(r) == Accepted(r) /\ ~request[r].disconnect

PastLadder(r) == pc[r] \in {"l70", "l75", "l88", "done"}

PastSerialize(r) == pc[r] \in {"l75", "l88", "done"}

RecordsOf(r) == {i \in 1..Len(log) : log[i].req = r}

\* What the decode ladder must produce for a body, as one function.
Ladder(b) ==
    LET j == json_loads(b)
        d == utf8_decode(b)
    IN  IF j.ok THEN [body_type |-> "json", body |-> j.val]
        ELSE IF d.ok THEN [body_type |-> "text", body |-> PyStr(d.val)]
        ELSE [body_type |-> "bytes", body |-> PyBytes(b)]

C2_ExactlyOneRecordAtAnyLevel ==
    \A r \in Requests : pc[r] = "done" => Cardinality(RecordsOf(r)) = 1

(***************************************************************************)
(* C2 as amended.  The handler executes logger.info at most once per       *)
(* request, and exactly once when it reaches line 75; the call writes one  *)
(* record when the logger is enabled for INFO (LOG_LEVEL DEBUG or INFO)    *)
(* and none otherwise (WARNING and above, or NOTSET, which inherits the    *)
(* root logger's WARNING); never two.  The record's body_type is the tag   *)
(* the ladder chose for that request.                                      *)
(***************************************************************************)
C2_OneRecordWhenEnabled ==
    \A r \in Requests :
        /\ log_calls[r] = (IF pc[r] \in {"l88", "done"} THEN 1 ELSE 0)
        /\ Cardinality(RecordsOf(r)) =
               (IF log_calls[r] = 1 /\ isEnabledFor("INFO", LOG_LEVEL) THEN 1 ELSE 0)
        /\ \A i \in RecordsOf(r) :
               /\ log[i].body_type = body_type[r]
               /\ log[i].body_type = Ladder(request[r].body).body_type

C2_Witness ==
    \E r \in Requests :
        /\ pc[r] = "done" /\ LOG_LEVEL = "INFO"
        /\ Cardinality(RecordsOf(r)) = 1
        /\ \E i \in RecordsOf(r) : log[i].body_type = "json"

(***************************************************************************)
(* C3 as stated: a body that is valid JSON is tagged "json" with the       *)
(* parsed value, a body that is not valid JSON but valid UTF-8 is tagged   *)
(* "text" with the decoded string, and any other body is tagged "bytes"    *)
(* with the original bytes.                                                *)
(***************************************************************************)
C3_TagByValidity ==
    \A r \in Requests :
        PastLadder(r) =>
            LET b == request[r].body
            IN  /\ IsValidJSON(b) =>
                       body_type[r] = "json" /\ body[r] = json_loads(b).val
                /\ ~IsValidJSON(b) /\ IsValidUTF8(b) =>
                       body_type[r] = "text" /\ body[r] = PyStr(utf8_decode(b).val)
                /\ ~IsValidJSON(b) /\ ~IsValidUTF8(b) =>
                       body_type[r] = "bytes" /\ body[r] = PyBytes(b)

(***************************************************************************)
(* C3 as amended.  The ladder is tried in the order JSON, UTF-8 text, raw  *)
(* bytes and the first success wins, where the JSON stage succeeds on      *)
(* every body the JSON parser accepts: every valid JSON text, and also the *)
(* non-standard literal NaN.  Such a body is tagged "json" with the parsed *)
(* value; every other body that is valid UTF-8 (the empty body included,   *)
(* giving the empty string) is tagged "text" with the decoded string;      *)
(* every remaining body is tagged "bytes" with the original bytes.         *)
(***************************************************************************)
C3_TagByParser ==
    \A r \in Requests :
        PastLadder(r) =>
            LET b == request[r].body
                j == json_loads(b)
            IN  /\ IsValidJSON(b) => body_type[r] = "json"
                /\ j.ok => body_type[r] = "json" /\ body[r] = j.val
                /\ ~j.ok /\ IsValidUTF8(b) =>
                       body_type[r] = "text" /\ body[r] = PyStr(utf8_decode(b).val)
                /\ ~j.ok /\ ~IsValidUTF8(b) =>
                       body_type[r] = "bytes" /\ body[r] = PyBytes(b)
                /\ b = <<>> => body_type[r] = "text" /\ body[r] = PyStr(<<>>)

C3_Witness ==
    /\ PastLadder(1) /\ request[1].body = <<78, 97, 78>>
    /\ body_type[1] = "json" /\ body[1] = PyNaN

(***************************************************************************)
(* C4 as stated: no exception raised in the decode ladder (lines 56-67)    *)
(* leaves the handler, a failure to read the body included.                *)
(***************************************************************************)
C4_LadderNeverRaises ==
    \A r \in Requests : pc[r] = "raised" => exc[r].line \notin 56..67

(***************************************************************************)
(* C4 as amended.  For a request whose body arrives, a JSON failure is     *)
(* caught and falls through to the UTF-8 stage, a UTF-8 failure falls      *)
(* through to raw bytes, and the handler reaches serialization with a tag; *)
(* no exception leaves the ladder.  A failure to read the body is caught   *)
(* at the JSON stage too, but the second read (line 61), which is outside  *)
(* the inner try, raises again and that exception leaves the handler: the  *)
(* request is answered 500 and never reaches serialization.                *)
(***************************************************************************)
C4_DecodeFailuresAbsorbed ==
    \A r \in Requests :
        /\ BodyDelivered(r) =>
               /\ pc[r] # "raised" /\ exc[r] = NoExc
               /\ pc[r] \in {"l61", "l62"} => ~json_loads(request[r].body).ok
               /\ pc[r] = "l62" => raw[r] = PyBytes(request[r].body)
               /\ PastLadder(r) => body_type[r] \in Tags
        /\ Accepted(r) /\ request[r].disconnect =>
               /\ pc[r] \in {"l48", "l57", "l61", "raised"}
               /\ pc[r] = "l61" => exc[r] = NoExc /\ body_type[r] = "unknown"
               /\ pc[r] = "raised" =>
                      /\ exc[r] = [type |-> "ClientDisconnect", line |-> 61]
                      /\ response[r] = ServerError

C4_Witness ==
    /\ pc[1] = "l70" /\ raw[1] = PyBytes(<<91, 255>>)
    /\ body_type[1] = "bytes" /\ exc[1] = NoExc

(***************************************************************************)
(* C5.  Under every interleaving of handlers at the awaits, a log record   *)
(* carries the client address, headers, tag and serialized body of the     *)
(* request whose handler wrote it, and a request's response depends on     *)
(* that request alone.                                                     *)
(***************************************************************************)
C5_RequestsIsolated ==
    /\ \A i \in 1..Len(log) :
           LET req == request[log[i].req]
               dec == Ladder(req.body)
           IN  /\ log[i].client_ip = extract_client_ip(req).val
               /\ log[i].headers = extract_headers(req)
               /\ log[i].body_type = dec.body_type
               /\ log[i].body = safe_serialize(dec.body).val
    /\ \A r \in Requests :
           Terminated(r) =>
               response[r] = (IF request[r].disconnect THEN ServerError ELSE JSONResponse)

\* Request 2 has logged while request 1, with another address, other
\* headers and another kind of body, is suspended in its body read.
C5_Witness ==
    /\ pc[1] = "l57" /\ pc[2] = "l88" /\ running = 2
    /\ request[1].client # request[2].client
    /\ request[1].headers # request[2].headers
    /\ request[1].body = <<49>> /\ request[2].body = <<255>>
    /\ Len(log) = 1 /\ log[1].req = 2 /\ log[1].body_type = "bytes"

C8_SerializedIsString ==
    /\ \A r \in Requests :
           /\ pc[r] = "raised" => exc[r].line \notin 70..73
           /\ PastSerialize(r) =>
                  /\ serialized_body[r].py = "str"
                  /\ body_type[r] \in {"json", "text"} =>
                         serialized_body[r].s = json_dumps(body[r]).val
                  /\ body_type[r] = "bytes" =>
                         serialized_body[r].s = encode_basestring(bytes_repr(request[r].body))
    /\ \A i \in 1..Len(log) : log[i].body.py = "str"

C8_Witness ==
    /\ pc[1] = "l75" /\ body_type[1] = "bytes" /\ request[1].body = <<255>>
    /\ serialized_body[1] = PyStr(<<34, 98, 39, 92, 92, 120, 102, 102, 39, 34>>)

(***************************************************************************)
(* C9.  Whenever the handler is at or past the log call, body_type is one  *)
(* of "json", "text", "bytes"; no record carries "unknown"; and a tag,     *)
(* once assigned, is never changed.                                        *)
(***************************************************************************)
C9_TagAtLog ==
    /\ \A r \in Requests : PastSerialize(r) => body_type[r] \in Tags
    /\ \A i \in 1..Len(log) : log[i].body_type \in Tags

C9_TagStable ==
    \A r \in Requests : body_type[r] \in Tags => body_type'[r] = body_type[r]

\* C9: the tag at and after the log call is one of the three, in every state,
\* and no step changes a tag that has been assigned.
C9_TagAssignedOnce == []C9_TagAtLog /\ [][C9_TagStable]_vars

C9_Witness ==
    /\ pc[1] = "l88" /\ body_type[1] = "text" /\ request[1].body = <<>>
    /\ Len(log) = 1 /\ log[1].body_type = "text"

(***************************************************************************)
(* C10.  The handler's steps happen in the order extraction, decode,       *)
(* serialization, log call, response: a request is acknowledged only after *)
(* its handler has executed the log call, and a request whose handler      *)
(* raised before the log call has neither a log record nor the             *)
(* acknowledgment.                                                         *)
(***************************************************************************)
C10_LogBeforeAck ==
    \A r \in Requests :
        /\ response[r] = JSONResponse => log_calls[r] = 1 /\ pc[r] = "done"
        /\ log_calls[r] >= 1 => serialized_body[r].py = "str"
        /\ serialized_body[r] # Unbound => body_type[r] \in Tags
        /\ body_type[r] \in Tags => client_ip[r] # Unbound /\ headers[r] # Unbound
        /\ (pc[r] = "raised" /\ exc[r].line < 75) =>
               /\ RecordsOf(r) = {} /\ log_calls[r] = 0
               /\ response[r] # JSONResponse

C10_Witness ==
    \E r \in Requests :
        /\ pc[r] = "done" /\ response[r] = JSONResponse /\ log_calls[r] = 1
        /\ LOG_LEVEL = "DEBUG" /\ RecordsOf(r) # {}
        /\ \E q \in Requests : pc[q] = "raised" /\ RecordsOf(q) = {}

=============================================================================
